---------------------------- MODULE Spec2Model ----------------------------
(***************************************************************************)
(* The MainPage component of the marketing bot's frontend                  *)
(* (src/frontend/src/components/MainPage.jsx), as a state machine.         *)
(*                                                                         *)
(* State: the eight useState cells of the component, the two kinds of      *)
(* outbound request while they are in flight, and what the page shows the  *)
(* outside world (the last blocking alert, the last downloaded file).      *)
(*                                                                         *)
(* One step is one callback run to its next suspension point: a user       *)
(* event handler, or the continuation of an async handler after an await.  *)
(* React commits the state updates of one such run together; the controls  *)
(* (disabled, rendered) are functions of the committed state.              *)
(*                                                                         *)
(* Strings are sequences of tokens: "" is << >>, concatenation is \o, and  *)
(* the characters the code inspects ('#', ' ', newline) are tokens of      *)
(* their own.                                                              *)
(***************************************************************************)
EXTENDS Naturals, Sequences, FiniteSets, TLC

VARIABLES
    prompt,      \* useState("")
    tone,        \* useState("")
    audience,    \* useState("")
    platforms,   \* useState({linkedin, twitter, reddit}): an ordered object
    generated,   \* useState(null): null or { post_title, post_text, ... }
    loading,     \* useState(false)
    posting,     \* useState(false)
    error,       \* useState("")
    genFlight,   \* POST /api/generate requests whose handler is suspended
    pubFlight,   \* POST /api/linkedin_post requests whose handler is suspended
    alertMsg,    \* the text of the last alert() shown
    downloaded   \* the last file handed to the browser by handleDownload

vars == <<prompt, tone, audience, platforms, generated, loading, posting,
          error, genFlight, pubFlight, alertMsg, downloaded>>

----------------------------------------------------------------------------
(* Bounds of the model *)

\* how many distinct non-empty texts the user can type into a field
NumTexts == 1

\* how many requests of one kind the network can hold at once
MaxInFlight == 2

----------------------------------------------------------------------------
(* JSON values *)

JUndef == [t |-> "undefined"]

JNull == [t |-> "null"]

JStr(s) == [t |-> "string", v |-> s]

\* an array of strings
JArr(a) == [t |-> "array", v |-> a]

\* JavaScript truthiness of a value, as used by !x, x || y and x ? a : b
Truthy(j) ==
    CASE j.t = "undefined" -> FALSE
      [] j.t = "null"      -> FALSE
      [] j.t = "string"    -> j.v # << >>
      [] OTHER             -> TRUE

\* an object of a response body; a field the body lacks is undefined
Obj(title, text, tags, detail, err) ==
    [t |-> "object", post_title |-> title, post_text |-> text,
     post_hashtags |-> tags, polished_prompt |-> JUndef, platform |-> JUndef,
     detail |-> detail, error |-> err]

BodyFields ==
    <<"post_title", "post_text", "post_hashtags", "polished_prompt",
      "platform", "detail", "error">>

\* res.json() rejecting: the body is not JSON
BadJson == [t |-> "badjson"]

RECURSIVE JoinTokens(_, _)
\* Array.prototype.join on strings
JoinTokens(a, sep) ==
    IF a = << >> THEN << >>
    ELSE IF Len(a) = 1 THEN a[1]
    ELSE a[1] \o sep \o JoinTokens(Tail(a), sep)

RECURSIVE StringifyFields(_, _, _)
RECURSIVE JSONstringify(_)
\* JSON.stringify of a value
JSONstringify(j) ==
    CASE j.t = "null"   -> <<"null">>
      [] j.t = "string" -> <<"\"">> \o j.v \o <<"\"">>
      [] j.t = "array"  ->
            <<"[">> \o JoinTokens([i \in 1..Len(j.v) |-> <<"\"">> \o j.v[i] \o <<"\"">>], <<",">>)
                    \o <<"]">>
      [] j.t = "object" -> <<"{">> \o StringifyFields(j, 1, TRUE) \o <<"}">>
      [] OTHER          -> << >>

\* the members of an object from field i on, undefined ones left out
StringifyFields(j, i, first) ==
    IF i > Len(BodyFields) THEN << >>
    ELSE LET f == BodyFields[i] IN
         IF j[f].t = "undefined" THEN StringifyFields(j, i + 1, first)
         ELSE (IF first THEN << >> ELSE <<",">>)
              \o <<"\"", f, "\":">> \o JSONstringify(j[f])
              \o StringifyFields(j, i + 1, FALSE)

----------------------------------------------------------------------------
(* Inputs: what the user types and what the backend answers *)

TextPool == <<"launch", "growth", "hiring">>

FieldTexts == {<< >>} \cup {<<TextPool[i]>> : i \in 1..NumTexts}

PlatformKeys == <<"linkedin", "twitter", "reddit">>

\* the chips the page renders: the Twitter and Reddit chips are commented out
RenderedChips == {"linkedin"}

ErrorStatuses == {404, 500}

\* what a rejected fetch carries as err.message
RejectMessages == {<<"Failed to fetch">>, << >>}

SyntaxErrorMessage == <<"Unexpected token < in JSON at position 0">>

ResultTXY == Obj(JStr(<<"T">>), JStr(<<"B">>),
                 JArr(<< <<"x">>, <<"#", "y">> >>), JUndef, JUndef)

ResultBare == Obj(JUndef, JStr(<<"B">>), JUndef, JUndef, JUndef)

ResultNoTags == Obj(JStr(<< >>), JStr(<<"B">>), JArr(<< >>), JUndef, JUndef)

\* 2xx bodies that carry a post_text
ValidBodies == {ResultTXY, ResultBare, ResultNoTags}

\* 2xx bodies that parse but carry no truthy post_text
LackingBodies ==
    { JNull,
      Obj(JStr(<<"T">>), JUndef, JArr(<< <<"x">> >>), JUndef, JUndef),
      Obj(JStr(<<"T">>), JStr(<< >>), JUndef, JUndef, JUndef),
      Obj(JUndef, JNull, JUndef, JUndef, JUndef) }

\* bodies of a non-2xx answer
ErrorBodies ==
    { BadJson, JNull,
      Obj(JUndef, JUndef, JUndef, JStr(<<"quota exceeded">>), JUndef),
      Obj(JUndef, JUndef, JUndef, JUndef, JStr(<<"bad request">>)),
      Obj(JUndef, JUndef, JUndef, JStr(<< >>), JStr(<<"bad request">>)),
      Obj(JUndef, JUndef, JUndef, JUndef, JUndef) }

GenerateBodies == ValidBodies \cup LackingBodies \cup ErrorBodies

----------------------------------------------------------------------------
(* The platform mapping: a JavaScript object, whose keys keep the order in *)
(* which they were first set                                               *)

\* p[key]; reading a key the object lacks gives undefined, and !undefined
\* is true, so a missing key reads as false here
Get(p, key) ==
    IF \E i \in 1..Len(p) : p[i].k = key
    THEN (CHOOSE e \in {p[i] : i \in 1..Len(p)} : e.k = key).v
    ELSE FALSE

\* { ...p, [key]: val }: an existing key keeps its place, a new one goes last
SetKey(p, key, val) ==
    IF \E i \in 1..Len(p) : p[i].k = key
    THEN [i \in 1..Len(p) |-> IF p[i].k = key THEN [k |-> key, v |-> val] ELSE p[i]]
    ELSE Append(p, [k |-> key, v |-> val])

\* Object.keys(p)
ObjectKeys(p) == [i \in 1..Len(p) |-> p[i].k]

\* the literal { linkedin: true, twitter: false, reddit: false }
DefaultPlatforms ==
    <<[k |-> "linkedin", v |-> TRUE], [k |-> "twitter", v |-> FALSE],
      [k |-> "reddit", v |-> FALSE]>>

\* a togglePlatform that drops the key and sets it anew, which moves it last
togglePlatformReinserted(p, key) ==
    LET IsOther(e) == e.k # key
    IN  Append(SelectSeq(p, IsOther), [k |-> key, v |-> ~Get(p, key)])

\* the updater togglePlatform hands to setPlatforms
togglePlatformUpdate(p, key) == SetKey(p, key, ~Get(p, key))

\* Object.keys(platforms).filter((k) => platforms[k])
SelectedPlatforms(p) ==
    LET IsOn(key) == Get(p, key)
    IN  SelectSeq(ObjectKeys(p), IsOn)

\* a payload with tone and audience taken from each other's field
PayloadSwapped(pr, tn, au, pl) ==
    [prompt |-> pr, tone |-> au, audience |-> tn,
     selected_platforms |-> SelectedPlatforms(pl), image_urls |-> << >>]

\* the payload handleGenerate builds from the state of its render
Payload(pr, tn, au, pl) ==
    [prompt |-> pr, tone |-> tn, audience |-> au,
     selected_platforms |-> SelectedPlatforms(pl), image_urls |-> << >>]

----------------------------------------------------------------------------
(* What the page renders *)

\* a submit button that is never disabled
SubmitNeverDisabled == FALSE

\* <button type="submit" disabled={loading}>
SubmitDisabled == loading

\* the Reset button: disabled={loading || posting}
ResetDisabled == loading \/ posting

\* {generated && (<div className="preview-actions">...)}
PreviewActionsRendered == generated.t # "null"

\* the publish button: disabled={!generated?.post_text || posting}
PublishDisabled ==
    \/ generated.t = "null"
    \/ ~Truthy(generated.post_text)
    \/ posting

\* the preview pane shows the post only when not loading and a result is there
PreviewShowsPost == ~loading /\ generated.t # "null"

\* the error banner: {error && <div ...>{error}</div>}
ErrorShown == error # << >>

----------------------------------------------------------------------------
(* Initial state: the component as first rendered *)

NoFile == [t |-> "none"]

NoAlert == << >>

Init ==
    /\ prompt = << >>
    /\ tone = << >>
    /\ audience = << >>
    /\ platforms = DefaultPlatforms
    /\ generated = JNull
    /\ loading = FALSE
    /\ posting = FALSE
    /\ error = << >>
    /\ genFlight = << >>
    /\ pubFlight = << >>
    /\ alertMsg = NoAlert
    /\ downloaded = NoFile

RemoveAt(s, i) == [j \in 1..(Len(s) - 1) |-> IF j < i THEN s[j] ELSE s[j + 1]]

----------------------------------------------------------------------------
(* handleGenerate *)

GenerateUrl == "/api/generate"

InvalidResponse == <<"Invalid response from server">>

SomethingWentWrong == <<"Something went wrong">>

\* an entry that forgets setGenerated(null)
handleGenerateEntryKeepsResult ==
    /\ error' = << >>
    /\ loading' = TRUE
    /\ UNCHANGED generated

\* an entry that forgets setError("")
handleGenerateEntryKeepsError ==
    /\ generated' = JNull
    /\ loading' = TRUE
    /\ UNCHANGED error

\* setError(""); setGenerated(null); setLoading(true)
handleGenerateEntry ==
    /\ error' = << >>
    /\ generated' = JNull
    /\ loading' = TRUE

\* the request handed to fetch: POST, JSON.stringify(payload)
GenerateRequest ==
    [url |-> GenerateUrl, method |-> "POST", phase |-> "fetch",
     body |-> Payload(prompt, tone, audience, platforms)]

\* the form's onSubmit, up to the await of fetch
Submit ==
    /\ ~SubmitDisabled
    /\ Len(genFlight) < MaxInFlight
    /\ handleGenerateEntry
    /\ genFlight' = Append(genFlight, GenerateRequest)
    /\ UNCHANGED <<prompt, tone, audience, platforms, posting, pubFlight,
                   alertMsg, downloaded>>

\* the message of the Error thrown for a non-2xx response
ErrText(status, body) ==
    IF body.t \in {"badjson", "null"}
    THEN \* res.json() rejects, or body.detail throws on null: both ignored
         <<"Server returned ", ToString(status)>>
    ELSE IF Truthy(body.detail) THEN body.detail.v
    ELSE IF Truthy(body.error) THEN body.error.v
    ELSE JSONstringify(body)

\* a check that only looks at data itself
ValidDataAnyObject(data) == data.t # "null"

\* the negation of (!data || !data.post_text)
ValidData(data) == data.t # "null" /\ Truthy(data.post_text)

\* what the try block throws once the body is read, if it throws
Thrown(ok, status, body) ==
    IF ~ok THEN [threw |-> TRUE, message |-> ErrText(status, body)]
    ELSE IF body.t = "badjson" THEN [threw |-> TRUE, message |-> SyntaxErrorMessage]
    ELSE IF ~ValidData(body) THEN [threw |-> TRUE, message |-> InvalidResponse]
    ELSE [threw |-> FALSE, message |-> << >>]

\* the object handed to setGenerated
GeneratedFrom(data) ==
    [t |-> "object", post_title |-> data.post_title, post_text |-> data.post_text,
     post_hashtags |-> data.post_hashtags,
     polished_prompt |-> data.polished_prompt, platform |-> data.platform]

\* a catch block that stores err.message as it is
CatchMessageAsIs(msg) == msg

\* err.message || "Something went wrong"
CatchMessage(msg) == IF msg # << >> THEN msg ELSE SomethingWentWrong

\* fetch rejects: catch, finally
GenerateFetchRejects(i, msg) ==
    /\ i \in 1..Len(genFlight)
    /\ genFlight[i].phase = "fetch"
    /\ error' = CatchMessage(msg)
    /\ loading' = FALSE
    /\ genFlight' = RemoveAt(genFlight, i)
    /\ UNCHANGED <<prompt, tone, audience, platforms, generated, posting,
                   pubFlight, alertMsg, downloaded>>

\* fetch resolves with a response; the handler goes on to await res.json()
GenerateFetchResolves(i, ok, status) ==
    /\ i \in 1..Len(genFlight)
    /\ genFlight[i].phase = "fetch"
    /\ genFlight' = [genFlight EXCEPT ![i] =
                        [phase |-> "body", ok |-> ok, status |-> status]]
    /\ UNCHANGED <<prompt, tone, audience, platforms, generated, loading,
                   posting, error, pubFlight, alertMsg, downloaded>>

\* res.json() settles: the rest of try, then catch and finally
GenerateReadsBody(i, body) ==
    /\ i \in 1..Len(genFlight)
    /\ genFlight[i].phase = "body"
    /\ LET out == Thrown(genFlight[i].ok, genFlight[i].status, body)
       IN  IF out.threw
           THEN /\ error' = CatchMessage(out.message)
                /\ UNCHANGED generated
           ELSE /\ generated' = GeneratedFrom(body)
                /\ UNCHANGED error
    /\ loading' = FALSE
    /\ genFlight' = RemoveAt(genFlight, i)
    /\ UNCHANGED <<prompt, tone, audience, platforms, posting, pubFlight,
                   alertMsg, downloaded>>

----------------------------------------------------------------------------
(* handleReset and postToLinkedIn *)

\* a reset that leaves the platform toggles alone
handleResetKeepsPlatforms ==
    /\ prompt' = << >>
    /\ tone' = << >>
    /\ audience' = << >>
    /\ generated' = JNull
    /\ error' = << >>
    /\ UNCHANGED platforms

handleReset ==
    /\ prompt' = << >>
    /\ tone' = << >>
    /\ audience' = << >>
    /\ platforms' = DefaultPlatforms
    /\ generated' = JNull
    /\ error' = << >>

\* the Reset button
Reset ==
    /\ ~ResetDisabled
    /\ handleReset
    /\ UNCHANGED <<loading, posting, genFlight, pubFlight, alertMsg, downloaded>>

PublishUrl == "/api/linkedin_post"

PublishedAlert == <<"Post published successfully on LinkedIn!">>

PublishFailedAlert == <<"Failed to post on LinkedIn. Check console for details.">>

\* the request handed to fetch: POST, JSON.stringify({ text })
PublishRequest(text) ==
    [url |-> PublishUrl, method |-> "POST", phase |-> "fetch",
     body |-> [text |-> text]]

\* the publish button's onClick, up to the await of fetch
PublishClick ==
    /\ PreviewActionsRendered
    /\ ~PublishDisabled
    /\ Len(pubFlight) < MaxInFlight
    /\ posting' = TRUE
    /\ pubFlight' = Append(pubFlight, PublishRequest(generated.post_text))
    /\ UNCHANGED <<prompt, tone, audience, platforms, generated, loading,
                   error, genFlight, alertMsg, downloaded>>

\* a catch block that also clears the page
postToLinkedInCatchResets ==
    /\ alertMsg' = PublishFailedAlert
    /\ handleReset

\* catch: console.error, alert, rethrow (the click handler swallows it)
postToLinkedInCatch ==
    /\ alertMsg' = PublishFailedAlert
    /\ UNCHANGED <<prompt, tone, audience, platforms, generated, error>>

\* fetch rejects: catch, finally
PublishFetchRejects(i) ==
    /\ i \in 1..Len(pubFlight)
    /\ pubFlight[i].phase = "fetch"
    /\ postToLinkedInCatch
    /\ posting' = FALSE
    /\ pubFlight' = RemoveAt(pubFlight, i)
    /\ UNCHANGED <<loading, genFlight, downloaded>>

\* fetch resolves with a response; the handler goes on to await res.text()
PublishFetchResolves(i, ok) ==
    /\ i \in 1..Len(pubFlight)
    /\ pubFlight[i].phase = "fetch"
    /\ pubFlight' = [pubFlight EXCEPT ![i] = [phase |-> "text", ok |-> ok]]
    /\ UNCHANGED <<prompt, tone, audience, platforms, generated, loading,
                   posting, error, genFlight, alertMsg, downloaded>>

\* res.text() rejects, or the response is not ok: catch, finally
PublishFails(i, readable) ==
    /\ i \in 1..Len(pubFlight)
    /\ pubFlight[i].phase = "text"
    /\ ~readable \/ ~pubFlight[i].ok
    /\ postToLinkedInCatch
    /\ posting' = FALSE
    /\ pubFlight' = RemoveAt(pubFlight, i)
    /\ UNCHANGED <<loading, genFlight, downloaded>>

\* res.text() resolves on an ok response: handleReset, alert, finally
PublishSucceeds(i) ==
    /\ i \in 1..Len(pubFlight)
    /\ pubFlight[i].phase = "text"
    /\ pubFlight[i].ok
    /\ handleReset
    /\ alertMsg' = PublishedAlert
    /\ posting' = FALSE
    /\ pubFlight' = RemoveAt(pubFlight, i)
    /\ UNCHANGED <<loading, genFlight, downloaded>>

----------------------------------------------------------------------------
(* The form's fields and chips *)

\* the textarea's onChange
SetPrompt(v) ==
    /\ prompt' = v
    /\ UNCHANGED <<tone, audience, platforms, generated, loading, posting,
                   error, genFlight, pubFlight, alertMsg, downloaded>>

\* the audience input's onChange
SetAudience(v) ==
    /\ audience' = v
    /\ UNCHANGED <<prompt, tone, platforms, generated, loading, posting,
                   error, genFlight, pubFlight, alertMsg, downloaded>>

\* the tone input's onChange
SetTone(v) ==
    /\ tone' = v
    /\ UNCHANGED <<prompt, audience, platforms, generated, loading, posting,
                   error, genFlight, pubFlight, alertMsg, downloaded>>

\* togglePlatform(key)
togglePlatform(key) ==
    /\ platforms' = togglePlatformUpdate(platforms, key)
    /\ UNCHANGED <<prompt, tone, audience, generated, loading, posting,
                   error, genFlight, pubFlight, alertMsg, downloaded>>

\* a click on one of the chips the page renders
ChipClick(key) ==
    /\ key \in RenderedChips
    /\ togglePlatform(key)

----------------------------------------------------------------------------
(* handleDownload *)

DownloadName == "generated_post.txt"

\* the template string of handleDownload
DownloadContents(g) ==
    (IF Truthy(g.post_title) THEN g.post_title.v \o <<"\n", "\n">> ELSE << >>)
    \o g.post_text.v
    \o <<"\n", "\n">>
    \o (IF g.post_hashtags.t = "array" /\ Len(g.post_hashtags.v) > 0
        THEN JoinTokens(g.post_hashtags.v, <<" ">>)
        ELSE << >>)

\* handleDownload(): nothing when there is no post text
handleDownload ==
    /\ IF generated.t = "null" \/ ~Truthy(generated.post_text)
       THEN UNCHANGED downloaded
       ELSE downloaded' = [t |-> "file", name |-> DownloadName,
                           contents |-> DownloadContents(generated)]
    /\ UNCHANGED <<prompt, tone, audience, platforms, generated, loading,
                   posting, error, genFlight, pubFlight, alertMsg>>

\* the hashtags as the preview renders them: #{h.replace(/^#/, "")}
PreviewHashtag(h) ==
    <<"#">> \o (IF h # << >> /\ Head(h) = "#" THEN Tail(h) ELSE h)

----------------------------------------------------------------------------
(* The page: what the user can do with what is rendered, and the network *)

UserStep ==
    \/ \E v \in FieldTexts : SetPrompt(v)
    \/ \E v \in FieldTexts : SetAudience(v)
    \/ \E v \in FieldTexts : SetTone(v)
    \/ \E key \in RenderedChips : ChipClick(key)
    \/ Submit
    \/ Reset
    \/ PublishClick

GenerateSettles ==
    \/ \E i \in 1..Len(genFlight), m \in RejectMessages : GenerateFetchRejects(i, m)
    \/ \E i \in 1..Len(genFlight) : GenerateFetchResolves(i, TRUE, 200)
    \/ \E i \in 1..Len(genFlight), st \in ErrorStatuses :
            GenerateFetchResolves(i, FALSE, st)
    \/ \E i \in 1..Len(genFlight), b \in GenerateBodies : GenerateReadsBody(i, b)

PublishSettles ==
    \/ \E i \in 1..Len(pubFlight) : PublishFetchRejects(i)
    \/ \E i \in 1..Len(pubFlight), ok \in BOOLEAN : PublishFetchResolves(i, ok)
    \/ \E i \in 1..Len(pubFlight), readable \in BOOLEAN : PublishFails(i, readable)
    \/ \E i \in 1..Len(pubFlight) : PublishSucceeds(i)

Next == UserStep \/ GenerateSettles \/ PublishSettles

Spec == Init /\ [][Next]_vars

\* every request issued is answered, and every body awaited is read or fails
FairSpec == Spec /\ WF_vars(GenerateSettles) /\ WF_vars(PublishSettles)

\* the component's functions called directly: togglePlatform with any key of
\* the mapping, handleDownload (no control of the page is bound to it)
FunctionCall ==
    \/ \E i \in 1..Len(PlatformKeys) : togglePlatform(PlatformKeys[i])
    \/ handleDownload

NextFn ==
    \/ FunctionCall
    \/ \E v \in FieldTexts : SetPrompt(v)
    \/ Submit
    \/ Reset
    \/ GenerateSettles

SpecFn == Init /\ [][NextFn]_vars

----------------------------------------------------------------------------
(* Properties *)

\* a parsed body without a truthy post_text: null, or an object whose
\* post_text is missing, null or ""
LacksPostText(b) ==
    \/ b.t = "null"
    \/ b.t = "object" /\ ~Truthy(b.post_text)

\* C1: when a 2xx response whose body lacks a truthy post_text is handled,
\* handleGenerate ends with a non-empty error stored and no result: the
\* preview is populated neither with the response nor with an older result.
C1_LackingPostTextIsAnError ==
    [][\A i \in 1..Len(genFlight), b \in GenerateBodies :
          (/\ genFlight[i].phase = "body"
           /\ genFlight[i].ok
           /\ LacksPostText(b)
           /\ GenerateReadsBody(i, b))
          => (error' # << >> /\ generated' = JNull /\ ~PreviewShowsPost')]_vars

\* a state right after such a response: the validation error is shown
C1_Witness ==
    /\ error = InvalidResponse
    /\ generated = JNull
    /\ ~loading

\* C2: a successful publish leaves prompt, tone and audience empty, the
\* toggles at linkedin on, twitter off, reddit off, no result and no error,
\* whatever they held before the response was handled.
C2_PublishSuccessClears ==
    [][\A i \in 1..Len(pubFlight) :
          PublishSucceeds(i)
          => (/\ prompt' = << >>
              /\ tone' = << >>
              /\ audience' = << >>
              /\ Get(platforms', "linkedin")
              /\ ~Get(platforms', "twitter")
              /\ ~Get(platforms', "reddit")
              /\ ObjectKeys(platforms') = PlatformKeys
              /\ generated' = JNull
              /\ error' = << >>)]_vars

\* the confirmation alert is up and the page is blank
C2_Witness ==
    /\ alertMsg = PublishedAlert
    /\ ~posting
    /\ prompt = << >>
    /\ tone = << >>
    /\ audience = << >>
    /\ platforms = DefaultPlatforms
    /\ generated = JNull
    /\ error = << >>

\* C3: the submit control is disabled while loading and the publish control
\* while posting, and at most one request of each kind is in flight.
C3_OneRequestOfEachKind ==
    /\ loading => SubmitDisabled
    /\ posting => PublishDisabled
    /\ Len(genFlight) <= 1
    /\ Len(pubFlight) <= 1

\* a generation and a publish are both in flight, both controls disabled
C3_Witness ==
    /\ loading
    /\ posting
    /\ Len(genFlight) = 1
    /\ Len(pubFlight) = 1
    /\ SubmitDisabled
    /\ PublishDisabled

\* C4: every generation request that completes leaves loading false; every
\* failing outcome (rejected fetch, non-2xx, unparseable or lacking body)
\* stores a non-empty error; and, requests being answered, loading always
\* leads to not loading.
C4_LoadingCleared ==
    /\ [][\A i \in 1..Len(genFlight), m \in RejectMessages :
            GenerateFetchRejects(i, m) => (~loading' /\ error' # << >>)]_vars
    /\ [][\A i \in 1..Len(genFlight), b \in GenerateBodies :
            GenerateReadsBody(i, b)
            => (/\ ~loading'
                /\ (\/ ~genFlight[i].ok
                    \/ b.t = "badjson"
                    \/ LacksPostText(b)) => error' # << >>)]_vars
    /\ (loading ~> ~loading)

\* a failed generation: the fallback message is stored, loading is cleared
C4_Witness ==
    /\ ~loading
    /\ genFlight = << >>
    /\ error = SomethingWentWrong

\* the keys of the mapping that are on, in declaration order
C5_OnInDeclarationOrder(p) ==
    LET IsOn(key) == Get(p, key)
    IN  SelectSeq(PlatformKeys, IsOn)

\* C5: the selected_platforms a submit sends is the keys whose toggle is
\* true, each once, in declaration order; a toggle flips its own key only.
C5_SelectedPlatforms ==
    /\ [][Submit => genFlight'[Len(genFlight')].body.selected_platforms
                      = C5_OnInDeclarationOrder(platforms)]_vars
    /\ [][\A i \in 1..Len(PlatformKeys) :
            togglePlatform(PlatformKeys[i])
            => \A j \in 1..Len(PlatformKeys) :
                  Get(platforms', PlatformKeys[j])
                    = IF j = i THEN ~Get(platforms, PlatformKeys[j])
                      ELSE Get(platforms, PlatformKeys[j])]_vars

\* linkedin toggled off, reddit and twitter toggled on, then a submit
C5_Witness ==
    /\ Len(genFlight) = 1
    /\ genFlight[1].phase = "fetch"
    /\ genFlight[1].body.selected_platforms = <<"twitter", "reddit">>

\* a hashtag with exactly one leading '#'
C6_Hashtag(h) ==
    <<"#">> \o (IF h # << >> /\ Head(h) = "#" THEN Tail(h) ELSE h)

\* the file the claim describes for a result g
C6_Described(g) ==
    (IF Truthy(g.post_title) THEN g.post_title.v \o <<"\n", "\n">> ELSE << >>)
    \o g.post_text.v
    \o <<"\n", "\n">>
    \o (IF g.post_hashtags.t = "array"
        THEN JoinTokens([i \in 1..Len(g.post_hashtags.v) |->
                            C6_Hashtag(g.post_hashtags.v[i])], <<" ">>)
        ELSE << >>)

\* C6: the text handleDownload writes is title, blank line, body, blank
\* line, and the hashtags joined by spaces, each with one leading '#'.
C6_DownloadAsDescribed ==
    [][(handleDownload /\ generated.t # "null")
          => (/\ downloaded'.name = DownloadName
              /\ downloaded'.contents = C6_Described(generated))]_vars

\* C7: a submit clears error and result, sets loading and issues one POST
\* to /api/generate carrying the fields as they are; and whenever no
\* generation is loading a submit can be made, whatever the fields hold.
C7_SubmitIssuesOneRequest ==
    /\ [][Submit
            => (/\ error' = << >>
                /\ generated' = JNull
                /\ loading'
                /\ Len(genFlight') = Len(genFlight) + 1
                /\ SubSeq(genFlight', 1, Len(genFlight)) = genFlight
                /\ LET req == genFlight'[Len(genFlight')]
                   IN  /\ req.url = "/api/generate"
                       /\ req.method = "POST"
                       /\ req.body.prompt = prompt
                       /\ req.body.tone = tone
                       /\ req.body.audience = audience)]_vars
    /\ [](~loading => ENABLED Submit)

\* a request with an empty prompt, tone and audience is in flight
C7_Witness ==
    /\ loading
    /\ Len(genFlight) = 1
    /\ genFlight[1].phase = "fetch"
    /\ genFlight[1].body.prompt = << >>
    /\ genFlight[1].body.tone = << >>
    /\ genFlight[1].body.audience = << >>

C8_AllFour ==
    /\ loading
    /\ posting
    /\ error # << >>
    /\ generated.t # "null"

C8_Set ==
    {f \in {"loading", "posting", "error", "result"} :
        \/ f = "loading" /\ loading
        \/ f = "posting" /\ posting
        \/ f = "error" /\ error # << >>
        \/ f = "result" /\ generated.t # "null"}

\* C8 as stated: the page comes to a state with loading, posting, an error
\* and a result all set.
C8_AllFourReached == <>C8_AllFour

\* C8, amended: generation and publish do overlap, but of loading, posting,
\* error present and result present at most two hold in any state.
C8_AtMostTwoSet == Cardinality(C8_Set) <= 2

\* a generation and a publish in flight at once
C8_Witness ==
    /\ loading
    /\ posting
    /\ Cardinality(C8_Set) = 2

\* C9: a failed publish leaves prompt, tone, audience, toggles, result and
\* error as they were, sets posting to false, and so leaves the publish
\* control of a draft still shown enabled.
C9_PublishFailureKeepsDraft ==
    [][\A i \in 1..Len(pubFlight), readable \in BOOLEAN :
          (PublishFetchRejects(i) \/ PublishFails(i, readable))
          => (/\ UNCHANGED <<prompt, tone, audience, platforms, generated, error>>
              /\ ~posting'
              /\ generated.t # "null"
                   => (PreviewActionsRendered' /\ ~PublishDisabled'))]_vars

\* the failure alert is up, the draft is still there and can be published
C9_Witness ==
    /\ alertMsg = PublishFailedAlert
    /\ ~posting
    /\ generated.t # "null"
    /\ prompt # << >>
    /\ ~PublishDisabled

\* C10: while loading, no result and no error is present; a result and an
\* error are never present together.
C10_LoadingMeansBlank ==
    /\ loading => (generated = JNull /\ error = << >>)
    /\ ~(generated.t # "null" /\ error # << >>)

\* a generation submitted while a publish is in flight, after an edit
C10_Witness ==
    /\ loading
    /\ Len(pubFlight) = 1
    /\ prompt # << >>
    /\ generated = JNull
    /\ error = << >>

=============================================================================
